---- MODULE Spec2Model ----
(***************************************************************************)
(* audio2corpus: the audio preprocessor (src/audio2corpus/preprocessor.py) *)
(* and the transcription API (src/api/fast.py) as state machines.          *)
(*                                                                         *)
(* Strings are sequences of one-character strings, so that endswith,       *)
(* startswith, lower, Path.stem and Path.with_suffix are computed as the   *)
(* library computes them.  An AudioSegment is the time range [lo, hi) (ms) *)
(* of the decoded input it holds; len(audio) is hi - lo.                   *)
(***************************************************************************)
EXTENDS Integers, Sequences, FiniteSets, TLC

\* ---------------------------------------------------------------- bounds
\* longest audio, in ms, handed to split_audio when it is called directly
MaxAudioMs == 12
\* longest segment_length, in ms, handed to split_audio when called directly
MaxSegmentMs == 5
\* longest input, in whole seconds, decoded by convert_audio called directly
MaxAudioSec == 45
\* entries of the input directory of a batch run (besides 'converted')
MaxDirEntries == 2
\* requests to POST /transcribe/ in one run of the server
NumRequests == 2
\* bytes of one upload
MaxBytes == 2

\* ------------------------------------------------------ program constants
\* milliseconds per second: the 1000 of len(audio) / 1000 and max_duration * 1000
MsPerSecond == 1000
\* the default of max_duration, in seconds
DefaultMaxDuration == 30

VARIABLES
    \* split_audio called directly
    sa_pc, sa_audio, sa_segment_length, sa_segments,
    \* the file system seen by the preprocessor
    inputFiles, disk, exports,
    \* one call of convert_audio
    cpc, input_path, output_path, max_duration, audio, segments, base_path, i,
    ret, err,
    \* one run of batch_convert_directory
    bpc, output_dir, listing, idx, calls,
    \* the API server
    uploadDir, rpc, reqFile, reqData, loaded, mediaResp

saVars == <<sa_pc, sa_audio, sa_segment_length, sa_segments>>
fsVars == <<inputFiles, disk, exports>>
convVars == <<cpc, input_path, output_path, max_duration, audio, segments,
              base_path, i, ret, err>>
batchVars == <<bpc, output_dir, listing, idx, calls>>
apiVars == <<uploadDir, rpc, reqFile, reqData, loaded, mediaResp>>
vars == <<saVars, fsVars, convVars, batchVars, apiVars>>

\* ------------------------------------------------------------ arithmetic
Min(a, b) == IF a <= b THEN a ELSE b

CeilDiv(a, b) == (a + b - 1) \div b

\* ----------------------------------------------------------------- str
\* str.endswith
EndsWith(s, t) ==
    /\ Len(s) >= Len(t)
    /\ SubSeq(s, Len(s) - Len(t) + 1, Len(s)) = t

\* str.startswith
StartsWith(s, t) ==
    /\ Len(s) >= Len(t)
    /\ SubSeq(s, 1, Len(t)) = t

\* str.lower on one character of the alphabet the file names use
LowerChar(c) ==
    CASE c = "A" -> "a"
      [] c = "M" -> "m"
      [] c = "P" -> "p"
      [] c = "W" -> "w"
      [] c = "V" -> "v"
      [] OTHER -> c

\* str.lower
Lower(s) == [k \in 1..Len(s) |-> LowerChar(s[k])]

\* str.rfind(c), 1-based; 0 when c does not occur (Python's -1)
RFind(s, c) ==
    LET hits == {k \in 1..Len(s) : s[k] = c}
    IN IF hits = {} THEN 0 ELSE CHOOSE k \in hits : \A j \in hits : j <= k

\* the digits of n >= 0, most significant first
RECURSIVE Digits(_)
Digits(n) ==
    LET d == <<"0", "1", "2", "3", "4", "5", "6", "7", "8", "9">>[(n % 10) + 1]
    IN IF n < 10 THEN <<d>> ELSE Append(Digits(n \div 10), d)

\* the format {n:02d}: at least two digits, zero padded
Format02d(n) == IF n < 10 THEN <<"0">> \o Digits(n) ELSE Digits(n)

\* ------------------------------------------------------------- pathlib
\* what Path.with_suffix raises on an invalid suffix
ValueError == <<"ValueError">>

\* output_path=None
None == <<"None">>

\* PurePath.name: the last component
PathName(p) == SubSeq(p, RFind(p, "/") + 1, Len(p))

\* the directory part of p, with its trailing "/"
PathParent(p) == SubSeq(p, 1, RFind(p, "/"))

\* PurePath.suffix: name[i:] when 0 < i < len(name) - 1 for i = name.rfind('.')
PathSuffix(p) ==
    LET name == PathName(p)
        k == RFind(name, ".")
    IN IF 1 < k /\ k < Len(name) THEN SubSeq(name, k, Len(name)) ELSE <<>>

\* PurePath.stem
PathStem(p) ==
    LET name == PathName(p)
        k == RFind(name, ".")
    IN IF 1 < k /\ k < Len(name) THEN SubSeq(name, 1, k - 1) ELSE name

\* PurePath.with_suffix(suffix), as a string: ValueError when the suffix holds
\* a separator, is not empty and does not start with a dot, or is a lone dot,
\* or when the path has an empty name
PathWithSuffix(p, suffix) ==
    LET name == PathName(p)
        old == PathSuffix(p)
    IN IF \/ \E k \in 1..Len(suffix) : suffix[k] = "/"
          \/ (suffix # <<>> /\ suffix[1] # ".")
          \/ suffix = <<".">>
          \/ name = <<>>
       THEN ValueError
       ELSE PathParent(p) \o SubSeq(name, 1, Len(name) - Len(old)) \o suffix

\* os.path.join(dir, name) for a relative name
PathJoin(dir, name) == dir \o <<"/">> \o name

\* ---------------------------------------------------------- split_audio
\* audio[start:end] of pydub: both ends clamped to the audio's length
Slice(a, start, end) ==
    LET n == a.hi - a.lo
    IN [lo |-> a.lo + Min(start, n), hi |-> a.lo + Min(end, n)]

\* the loop of split_audio from `start` on: range(0, audio_length, segment_length)
RECURSIVE SplitFrom(_, _, _, _)
SplitFrom(a, segment_length, start, acc) ==
    LET audio_length == a.hi - a.lo
        end == Min(start + segment_length, audio_length)
    IN IF start >= audio_length
       THEN acc
       ELSE SplitFrom(a, segment_length, start + segment_length,
                      Append(acc, Slice(a, start, end)))

\* a slip of split_audio: the end of a window is not clamped to the length
RECURSIVE SplitFromWholeWindows(_, _, _, _)
SplitFromWholeWindows(a, segment_length, start, acc) ==
    LET audio_length == a.hi - a.lo
    IN IF start + segment_length > audio_length
       THEN acc
       ELSE SplitFromWholeWindows(a, segment_length, start + segment_length,
                Append(acc, Slice(a, start, start + segment_length)))

split_audio_whole_windows(a, segment_length) ==
    SplitFromWholeWindows(a, segment_length, 0, <<>>)

split_audio(a, segment_length) == SplitFrom(a, segment_length, 0, <<>>)

WholeAudio(n) == [lo |-> 0, hi |-> n]

\* ------------------------------------------- split_audio called directly
NoAudio == [lo |-> 0, hi |-> 0]

SaIdle ==
    /\ sa_pc = "off"
    /\ sa_audio = NoAudio
    /\ sa_segment_length = 1
    /\ sa_segments = <<>>

FsEmpty ==
    /\ inputFiles = <<>>
    /\ disk = <<>>
    /\ exports = <<>>

ConvIdle ==
    /\ cpc = "idle"
    /\ input_path = <<>>
    /\ output_path = None
    /\ max_duration = DefaultMaxDuration
    /\ audio = NoAudio
    /\ segments = <<>>
    /\ base_path = <<>>
    /\ i = 0
    /\ ret = "none"
    /\ err = "none"

BatchIdle ==
    /\ bpc = "off"
    /\ output_dir = None
    /\ listing = <<>>
    /\ idx = 0
    /\ calls = <<>>

ApiIdle ==
    /\ uploadDir = <<>>
    /\ rpc = <<>>
    /\ reqFile = <<>>
    /\ reqData = <<>>
    /\ loaded = <<>>
    /\ mediaResp = [kind |-> "none"]

InitSplit ==
    /\ sa_pc = "call"
    /\ sa_audio \in {WholeAudio(d) : d \in 0..MaxAudioMs}
    /\ sa_segment_length \in 1..MaxSegmentMs
    /\ sa_segments = <<>>
    /\ FsEmpty /\ ConvIdle /\ BatchIdle /\ ApiIdle

\* segments = split_audio(audio, segment_length)
CallSplitAudio ==
    /\ sa_pc = "call"
    /\ sa_segments' = split_audio(sa_audio, sa_segment_length)
    /\ sa_pc' = "returned"
    /\ UNCHANGED <<sa_audio, sa_segment_length, fsVars, convVars, batchVars,
                   apiVars>>

NextSplit == CallSplitAudio

SpecSplit == InitSplit /\ [][NextSplit]_vars

\* ------------------------------------------------------------------ C1
\* C1: for every audio length d >= 0 and segment_length L > 0, split_audio
\* returns exactly ceil(d/L) segments (none when d = 0); the k-th segment
\* (from 0) spans [k*L, min((k+1)*L, d)), so the segments are ordered,
\* contiguous, non-overlapping, non-empty, cover [0, d) exactly, and only
\* the last may be shorter than L.
C1_SplitPartitions ==
    sa_pc = "returned" =>
        LET d == sa_audio.hi
            L == sa_segment_length
            n == Len(sa_segments)
        IN /\ n = CeilDiv(d, L)
           /\ \A k \in 1..n :
                /\ sa_segments[k].lo = (k - 1) * L
                /\ sa_segments[k].hi = Min(k * L, d)
                /\ sa_segments[k].lo < sa_segments[k].hi
                /\ k < n => sa_segments[k].hi - sa_segments[k].lo = L
                /\ k < n => sa_segments[k].hi = sa_segments[k + 1].lo
           /\ n > 0 => sa_segments[1].lo = 0 /\ sa_segments[n].hi = d
           /\ d = 0 => n = 0

\* a split whose last segment is shorter than segment_length
C1_Witness ==
    /\ sa_pc = "returned"
    /\ Len(sa_segments) = 3
    /\ sa_segments[3].hi - sa_segments[3].lo < sa_segment_length
    /\ sa_segments[3].hi = sa_audio.hi

\* ------------------------------------------------------- convert_audio
\* the suffix convert_audio hands to with_suffix on the single-file path
Suffix16khz == <<"_", "1", "6", "k", "h", "z", ".", "w", "a", "v">>

PartInfix == <<"_", "p", "a", "r", "t">>

DotWav == <<".", "w", "a", "v">>

\* a file that from_file cannot decode
NotAudio == [decodable |-> FALSE, length |-> 0]

AudioFile(n) == [decodable |-> TRUE, length |-> n]

\* AudioSegment.from_file can decode the file at path p
Decodable(p) == p \in DOMAIN inputFiles /\ inputFiles[p].decodable

\* duration > max_duration for duration = len(audio) / 1000: a true division,
\* so the comparison is that of the milliseconds with max_duration * 1000
DurationExceeds(a, maxd) == (a.hi - a.lo) > maxd * MsPerSecond

\* a slip: the parts are not numbered, every segment goes to one file
SegmentPathUnnumbered(base, n) == base \o PartInfix \o DotWav

\* f"{base_path}_part{i:02d}.wav"
SegmentPath(base, n) == base \o PartInfix \o Format02d(n) \o DotWav

\* the file system after segment.export(path) / audio.export(path)
Written(d, path, content) ==
    [p \in DOMAIN d \cup {path} |-> IF p = path THEN content ELSE d[p]]

ExportRecord(path, a) == [path |-> path, src |-> input_path, lo |-> a.lo, hi |-> a.hi]

\* where the short path writes: output_path, or the name made from input_path
WholeTarget ==
    IF output_path = None
    THEN PathWithSuffix(input_path, Suffix16khz)
    ELSE output_path

\* audio = AudioSegment.from_file(input_path), resampled to target_sr
Load ==
    /\ cpc = "call"
    /\ Decodable(input_path)
    /\ audio' = WholeAudio(inputFiles[input_path].length)
    /\ cpc' = "loaded"
    /\ UNCHANGED <<input_path, output_path, max_duration, segments, base_path,
                   i, ret, err, saVars, fsVars, batchVars, apiVars>>

\* from_file raises: the except clause returns False
LoadFails ==
    /\ cpc = "call"
    /\ ~Decodable(input_path)
    /\ err' = "decode"
    /\ ret' = "False"
    /\ cpc' = "returned"
    /\ UNCHANGED <<input_path, output_path, max_duration, audio, segments,
                   base_path, i, saVars, fsVars, batchVars, apiVars>>

\* duration > max_duration: split and compute base_path
Split ==
    /\ cpc = "loaded"
    /\ DurationExceeds(audio, max_duration)
    /\ segments' = split_audio(audio, max_duration * MsPerSecond)
    /\ LET base == PathWithSuffix(IF output_path = None THEN input_path
                                  ELSE output_path, <<>>)
       IN IF base = ValueError
          THEN /\ err' = "ValueError"
               /\ ret' = "False"
               /\ cpc' = "returned"
               /\ UNCHANGED <<base_path, i>>
          ELSE /\ base_path' = base
               /\ i' = 1
               /\ cpc' = "exporting"
               /\ UNCHANGED <<ret, err>>
    /\ UNCHANGED <<input_path, output_path, max_duration, audio, saVars,
                   fsVars, batchVars, apiVars>>

\* one turn of the export loop: segment.export(segment_path, format='wav')
ExportSegment ==
    /\ cpc = "exporting"
    /\ i <= Len(segments)
    /\ LET segment_path == SegmentPath(base_path, i)
       IN /\ disk' = Written(disk, segment_path,
                             [src |-> input_path, lo |-> segments[i].lo,
                              hi |-> segments[i].hi])
          /\ exports' = Append(exports, ExportRecord(segment_path, segments[i]))
    /\ i' = i + 1
    /\ UNCHANGED <<cpc, input_path, output_path, max_duration, audio, segments,
                   base_path, ret, err, inputFiles, saVars, batchVars, apiVars>>

\* segment.export raises before it creates the file: return False
ExportSegmentFails ==
    /\ cpc = "exporting"
    /\ i <= Len(segments)
    /\ err' = "export"
    /\ ret' = "False"
    /\ cpc' = "returned"
    /\ UNCHANGED <<input_path, output_path, max_duration, audio, segments,
                   base_path, i, saVars, fsVars, batchVars, apiVars>>

\* the export loop is over: return True
FinishSegments ==
    /\ cpc = "exporting"
    /\ i > Len(segments)
    /\ ret' = "True"
    /\ cpc' = "returned"
    /\ UNCHANGED <<input_path, output_path, max_duration, audio, segments,
                   base_path, i, err, saVars, fsVars, batchVars, apiVars>>

\* duration <= max_duration: audio.export(output_path, format='wav'), return True
ExportWhole ==
    /\ cpc = "loaded"
    /\ ~DurationExceeds(audio, max_duration)
    /\ WholeTarget # ValueError
    /\ disk' = Written(disk, WholeTarget,
                       [src |-> input_path, lo |-> audio.lo, hi |-> audio.hi])
    /\ exports' = Append(exports, ExportRecord(WholeTarget, audio))
    /\ ret' = "True"
    /\ cpc' = "returned"
    /\ UNCHANGED <<input_path, output_path, max_duration, audio, segments,
                   base_path, i, err, inputFiles, saVars, batchVars, apiVars>>

\* duration <= max_duration and with_suffix or export raises: return False
ExportWholeFails ==
    /\ cpc = "loaded"
    /\ ~DurationExceeds(audio, max_duration)
    /\ err' = IF WholeTarget = ValueError THEN "ValueError" ELSE "export"
    /\ ret' = "False"
    /\ cpc' = "returned"
    /\ UNCHANGED <<input_path, output_path, max_duration, audio, segments,
                   base_path, i, saVars, fsVars, batchVars, apiVars>>

convert_audio ==
    \/ Load
    \/ LoadFails
    \/ Split
    \/ ExportSegment
    \/ ExportSegmentFails
    \/ FinishSegments
    \/ ExportWhole
    \/ ExportWholeFails

\* --------------------------------------------- convert_audio called directly
\* lengths of the decoded input, in ms: around every whole second
AudioLengths ==
    {n \in {s * MsPerSecond + o : s \in 0..MaxAudioSec, o \in {0, 1, 999}} :
        n <= MaxAudioSec * MsPerSecond}

\* "a.mp3" and "d/a.b.wav"
ConvertInputs ==
    { <<"a", ".", "m", "p", "3">>,
      <<"d", "/", "a", ".", "b", ".", "w", "a", "v">> }

\* None, "o/a" and "o/a.b.wav"
ConvertOutputs ==
    { None,
      <<"o", "/", "a">>,
      <<"o", "/", "a", ".", "b", ".", "w", "a", "v">> }

MaxDurations == {1, 2, DefaultMaxDuration}

InitConvert ==
    /\ cpc = "call"
    /\ input_path \in ConvertInputs
    /\ output_path \in ConvertOutputs
    /\ max_duration \in MaxDurations
    /\ inputFiles \in [{input_path} -> {NotAudio} \cup {AudioFile(n) : n \in AudioLengths}]
    /\ disk = <<>>
    /\ exports = <<>>
    /\ audio = NoAudio
    /\ segments = <<>>
    /\ base_path = <<>>
    /\ i = 0
    /\ ret = "none"
    /\ err = "none"
    /\ SaIdle /\ BatchIdle /\ ApiIdle

NextConvert == convert_audio

SpecConvert == InitConvert /\ [][NextConvert]_vars

\* the length, in ms, of the decoded input of the call
InputLength == inputFiles[input_path].length

\* the call ended without from_file or export raising
NoIoError == err \notin {"decode", "export"}

\* ------------------------------------------------------------------ C2
\* C2: convert_audio chooses its path by the duration threshold: an audio of
\* duration <= max_duration (the boundary included) is not split and exactly
\* one file holding the whole buffer is exported; an audio of duration >
\* max_duration is split with segment_length = max_duration * 1000 and one
\* file per segment is exported, each at most max_duration seconds long.
C2_ThresholdChoosesPath ==
    (cpc = "returned" /\ NoIoError) =>
        LET d == InputLength
            L == max_duration * MsPerSecond
        IN IF d <= L
           THEN /\ segments = <<>>
                /\ Len(exports) = 1
                /\ exports[1].lo = 0 /\ exports[1].hi = d
           ELSE /\ Len(exports) = CeilDiv(d, L)
                /\ \A k \in 1..Len(exports) :
                     /\ exports[k].lo = (k - 1) * L
                     /\ exports[k].hi = Min(k * L, d)
                     /\ exports[k].hi - exports[k].lo <= L

\* the same, for the calls that name an output_path
ThresholdWithOutputPath == output_path # None => C2_ThresholdChoosesPath

\* ------------------------------------------------------------------ C3
\* C3: called without an output_path on a file that decodes and is no longer
\* than max_duration, convert_audio writes the audio to the input's name with
\* _16khz added and a .wav extension, and returns True.
C3_DefaultOutputName ==
    ( /\ cpc = "returned"
      /\ output_path = None
      /\ Decodable(input_path)
      /\ InputLength <= max_duration * MsPerSecond
      /\ err # "export" ) =>
        LET target == PathParent(input_path) \o PathStem(input_path) \o Suffix16khz
        IN /\ ret = "True"
           /\ target \in DOMAIN disk
           /\ disk[target] = [src |-> input_path, lo |-> 0, hi |-> InputLength]

\* ------------------------------------------------------------------ C4
\* C4: when a call of convert_audio fails, no file it wrote is left on disk:
\* the files written before the failure are deleted before False is returned,
\* and a decode failure leaves none.
C4_NoFilesLeftOnFailure ==
    (cpc = "returned" /\ ret = "False") => DOMAIN disk = {}

\* ------------------------------------------------------------------ C8
\* C8: on the split path the segments are exported one after the other in
\* segment order, numbered from 1: the k-th export writes <base>_partNN.wav
\* with number k, holding [(k-1)*L, min(k*L, d)) for L = max_duration * 1000;
\* the numbers written so far are exactly 1..i-1, none skipped or repeated;
\* and when the call returns True there is one part file per segment.
C8_PartsInSegmentOrder ==
    i > 0 =>
        LET d == InputLength
            L == max_duration * MsPerSecond
            part(k) == base_path \o PartInfix \o Format02d(k) \o DotWav
        IN /\ Len(exports) = i - 1
           /\ \A k \in 1..Len(exports) :
                /\ exports[k].path = part(k)
                /\ exports[k].lo = (k - 1) * L
                /\ exports[k].hi = Min(k * L, d)
                /\ part(k) \in DOMAIN disk
                /\ disk[part(k)].lo = (k - 1) * L
                /\ disk[part(k)].hi = Min(k * L, d)
           /\ Cardinality(DOMAIN disk) = Len(exports)
           /\ ret = "True" =>
                /\ Len(exports) = Len(segments)
                /\ Len(segments) = CeilDiv(d, L)

\* a 45 s input split at 30 s: part01 holds [0, 30 s), part02 [30 s, 45 s)
C8_Witness ==
    /\ ret = "True"
    /\ i = 3
    /\ max_duration = DefaultMaxDuration
    /\ Len(exports) = 2
    /\ exports[1].path = base_path \o PartInfix \o <<"0", "1">> \o DotWav
    /\ exports[2].path = base_path \o PartInfix \o <<"0", "2">> \o DotWav
    /\ exports[2].lo = 30000 /\ exports[2].hi = 45000

\* ----------------------------------------------- batch_convert_directory
\* input_dir of the run: "in"
input_dir == <<"i", "n">>

\* 'converted'
ConvertedDir == <<"c", "o", "n", "v", "e", "r", "t", "e", "d">>

\* supported_formats
supported_formats ==
    { <<".", "m", "p", "3">>, <<".", "w", "a", "v">>, <<".", "o", "g", "g">>,
      <<".", "f", "l", "a", "c">>, <<".", "m", "4", "a">>,
      <<".", "w", "m", "a">>, <<".", "a", "a", "c">> }

\* a slip: the extension is compared without lower-casing the name
IsSupportedCaseSensitive(filename) ==
    \E fmt \in supported_formats : EndsWith(filename, fmt)

\* any(filename.lower().endswith(fmt) for fmt in supported_formats)
IsSupported(filename) ==
    \E fmt \in supported_formats : EndsWith(Lower(filename), fmt)

\* the orders in which os.listdir may list the names of S
Orderings(S) ==
    {s \in [1..Cardinality(S) -> S] :
        \A a, b \in 1..Cardinality(S) : a # b => s[a] # s[b]}

\* the names in input_dir when it is listed: its files, and the 'converted'
\* directory that makedirs has made there when no output_dir was given
DirNames(outdir) ==
    {PathName(p) : p \in DOMAIN inputFiles}
        \cup (IF outdir = None THEN {ConvertedDir} ELSE {})

\* output_dir defaulted, os.makedirs, os.listdir(input_dir)
BatchStart ==
    /\ bpc = "start"
    /\ output_dir' = IF output_dir = None
                     THEN PathJoin(input_dir, ConvertedDir)
                     ELSE output_dir
    /\ listing' \in Orderings(DirNames(output_dir))
    /\ idx' = 1
    /\ bpc' = "loop"
    /\ UNCHANGED <<calls, saVars, fsVars, convVars, apiVars>>

\* a supported entry: convert_audio(input_path, output_base, max_duration=...)
BatchCallConvert ==
    /\ bpc = "loop"
    /\ idx <= Len(listing)
    /\ IsSupported(listing[idx])
    /\ input_path' = PathJoin(input_dir, listing[idx])
    /\ output_path' = PathJoin(output_dir, PathStem(listing[idx]))
    /\ calls' = Append(calls, [filename |-> listing[idx],
                               input_path |-> input_path',
                               output_path |-> output_path',
                               ret |-> "none"])
    /\ cpc' = "call"
    /\ audio' = NoAudio
    /\ segments' = <<>>
    /\ base_path' = <<>>
    /\ i' = 0
    /\ ret' = "none"
    /\ err' = "none"
    /\ bpc' = "in_call"
    /\ UNCHANGED <<max_duration, output_dir, listing, idx, saVars, fsVars,
                   apiVars>>

\* an entry with no supported extension is passed over
BatchSkip ==
    /\ bpc = "loop"
    /\ idx <= Len(listing)
    /\ ~IsSupported(listing[idx])
    /\ idx' = idx + 1
    /\ UNCHANGED <<bpc, output_dir, listing, calls, saVars, fsVars, convVars,
                   apiVars>>

\* convert_audio has returned; its result is dropped and the loop goes on
BatchReturn ==
    /\ bpc = "in_call"
    /\ cpc = "returned"
    /\ calls' = [calls EXCEPT ![Len(calls)].ret = ret]
    /\ idx' = idx + 1
    /\ cpc' = "idle"
    /\ bpc' = "loop"
    /\ UNCHANGED <<output_dir, listing, input_path, output_path, max_duration,
                   audio, segments, base_path, i, ret, err, saVars, fsVars,
                   apiVars>>

\* the listing is exhausted
BatchDone ==
    /\ bpc = "loop"
    /\ idx > Len(listing)
    /\ bpc' = "done"
    /\ UNCHANGED <<output_dir, listing, idx, calls, saVars, fsVars, convVars,
                   apiVars>>

\* "a.mp3", "a.wav", "A.MP3", "n.txt"
BatchNames ==
    { <<"a", ".", "m", "p", "3">>,
      <<"a", ".", "w", "a", "v">>,
      <<"A", ".", "M", "P", "3">>,
      <<"n", ".", "t", "x", "t">> }

\* what a file of the input directory may hold: no audio, 1 s, 2.5 s
BatchFiles == {NotAudio, AudioFile(MsPerSecond), AudioFile(2500)}

InitBatch ==
    /\ bpc = "start"
    /\ output_dir \in {None, <<"o", "u", "t">>}
    /\ max_duration = 2
    /\ \E D \in SUBSET BatchNames :
         /\ Cardinality(D) <= MaxDirEntries
         /\ inputFiles \in [{PathJoin(input_dir, n) : n \in D} -> BatchFiles]
    /\ disk = <<>>
    /\ exports = <<>>
    /\ listing = <<>>
    /\ idx = 0
    /\ calls = <<>>
    /\ cpc = "idle"
    /\ input_path = <<>>
    /\ output_path = None
    /\ audio = NoAudio
    /\ segments = <<>>
    /\ base_path = <<>>
    /\ i = 0
    /\ ret = "none"
    /\ err = "none"
    /\ SaIdle /\ ApiIdle

NextBatch ==
    \/ BatchStart
    \/ BatchCallConvert
    \/ BatchSkip
    \/ BatchReturn
    \/ BatchDone
    \/ convert_audio

SpecBatch == InitBatch /\ [][NextBatch]_vars

\* the run is one sequential program: it takes its next step while it has one
FairSpecBatch == SpecBatch /\ WF_vars(NextBatch)

\* ------------------------------------------------------------------ C9
\* the file names convert_audio has been called for, in call order
CalledNames == [k \in 1..Len(calls) |-> calls[k].filename]

\* the entries of the listing whose lower-cased name has a supported extension
SupportedEntries ==
    LET supported(name) ==
            \E fmt \in { <<".", "m", "p", "3">>, <<".", "w", "a", "v">>,
                         <<".", "o", "g", "g">>, <<".", "f", "l", "a", "c">>,
                         <<".", "m", "4", "a">>, <<".", "w", "m", "a">>,
                         <<".", "a", "a", "c">> } :
                EndsWith(Lower(name), fmt)
    IN SelectSeq(listing, supported)

\* C9: batch_convert_directory calls convert_audio exactly once for every
\* entry of the input directory whose lower-cased name ends with a supported
\* extension and for no other entry; a conversion that reports False does
\* not stop the batch: every supported entry is attempted and the run ends.
C9_EverySupportedFileAttempted ==
    /\ [](/\ Len(CalledNames) <= Len(SupportedEntries)
          /\ CalledNames = SubSeq(SupportedEntries, 1, Len(CalledNames)))
    /\ <>(bpc = "done" /\ CalledNames = SupportedEntries)

\* a finished run whose first conversion failed and whose second succeeded,
\* one of them for a name with an upper-case extension
C9_Witness ==
    /\ bpc = "done"
    /\ Len(calls) = 2
    /\ calls[1].ret = "False"
    /\ calls[2].ret = "True"
    /\ \E k \in 1..2 : calls[k].filename = <<"A", ".", "M", "P", "3">>
    /\ \E k \in 1..Len(listing) : listing[k] = ConvertedDir

\* ----------------------------------------------------------------- C10
\* C10: within one batch run the outputs of distinct input files never
\* collide: no path is written for two different inputs.
C10_OutputsDisjoint ==
    \A j, k \in 1..Len(exports) :
        exports[j].src # exports[k].src => exports[j].path # exports[k].path

\* ------------------------------------------------------------ the API
\* uploadDir maps each file name in UPLOAD_DIR to the file's bytes; a byte of
\* an upload is the number of the request that sent it.
Requests == 1..NumRequests

\* "a", "ab", "ba": the filename of an upload
UploadNames == { <<"a">>, <<"a", "b">>, <<"b", "a">> }

\* "a", "ab", "c": the file_name of GET /media/{file_name}
MediaQueries == { <<"a">>, <<"a", "b">>, <<"c">> }

\* the n bytes request r uploads
Payload(r, n) == [k \in 1..n |-> r]

\* a file after `data` is written through a descriptor at offset 0 that was
\* opened before the file got its present bytes: the bytes past the data stay
WrittenAtStart(old, data) == data \o SubSeq(old, Len(data) + 1, Len(old))

\* a slip of return_media: the last match of the listing is kept
RECURSIVE LastMatch(_, _, _)
LastMatch(l, file_name, k) ==
    IF k = 0 THEN <<>>
    ELSE IF StartsWith(l[k], file_name) THEN <<l[k]>>
    ELSE LastMatch(l, file_name, k - 1)

MediaLookupLast(l, file_name) == LastMatch(l, file_name, Len(l))

\* the loop of return_media over the listing from position k on: <<files>>
\* for the first entry that starts with file_name, <<>> when the loop ends
RECURSIVE FirstMatch(_, _, _)
FirstMatch(l, file_name, k) ==
    IF k > Len(l) THEN <<>>
    ELSE IF StartsWith(l[k], file_name) THEN <<l[k]>>
    ELSE FirstMatch(l, file_name, k + 1)

MediaLookup(l, file_name) == FirstMatch(l, file_name, 1)

\* transcribe up to its await: audio_path is made from the upload's filename
\* and open(audio_path, "wb") creates the file or truncates it.  Requests are
\* numbered in the order in which they arrive.
TranscribeOpen(r) ==
    /\ rpc[r] = "new"
    /\ \A q \in Requests : q < r => rpc[q] # "new"
    /\ \E name \in UploadNames, n \in 1..MaxBytes :
         /\ reqFile' = [reqFile EXCEPT ![r] = name]
         /\ reqData' = [reqData EXCEPT ![r] = Payload(r, n)]
         /\ uploadDir' = Written(uploadDir, name, <<>>)
    /\ rpc' = [rpc EXCEPT ![r] = "awaiting"]
    /\ UNCHANGED <<loaded, mediaResp, saVars, fsVars, convVars, batchVars>>

\* transcribe from its await on, to the return: the upload is written and the
\* file closed, librosa.load reads the file back, the model transcribes
TranscribeReturns(r) ==
    /\ rpc[r] = "awaiting"
    /\ LET bytes == WrittenAtStart(uploadDir[reqFile[r]], reqData[r])
       IN /\ uploadDir' = Written(uploadDir, reqFile[r], bytes)
          /\ loaded' = [loaded EXCEPT ![r] = bytes]
    /\ rpc' = [rpc EXCEPT ![r] = "returned"]
    /\ UNCHANGED <<reqFile, reqData, mediaResp, saVars, fsVars, convVars,
                   batchVars>>

\* transcribe from its await on, when librosa.load, the processor or the
\* model raises: the exception leaves the handler
TranscribeRaises(r) ==
    /\ rpc[r] = "awaiting"
    /\ uploadDir' = Written(uploadDir, reqFile[r],
                            WrittenAtStart(uploadDir[reqFile[r]], reqData[r]))
    /\ rpc' = [rpc EXCEPT ![r] = "raised"]
    /\ UNCHANGED <<reqFile, reqData, loaded, mediaResp, saVars, fsVars,
                   convVars, batchVars>>

\* GET /media/{file_name}: the answer, with the listing os.listdir gave and
\* the names stored in the upload directory at the time of the request
return_media(file_name) ==
    /\ \E l \in Orderings(DOMAIN uploadDir) :
         LET found == MediaLookup(l, file_name)
         IN mediaResp' =
              IF found # <<>>
              THEN [kind |-> "FileResponse", filename |-> found[1],
                    file_name |-> file_name, listing |-> l,
                    stored |-> DOMAIN uploadDir]
              ELSE [kind |-> "error", filename |-> <<>>,
                    file_name |-> file_name, listing |-> l,
                    stored |-> DOMAIN uploadDir]
    /\ UNCHANGED <<uploadDir, rpc, reqFile, reqData, loaded, saVars, fsVars,
                   convVars, batchVars>>

InitApi ==
    /\ uploadDir = <<>>
    /\ rpc = [r \in Requests |-> "new"]
    /\ reqFile = [r \in Requests |-> <<>>]
    /\ reqData = [r \in Requests |-> <<>>]
    /\ loaded = [r \in Requests |-> <<>>]
    /\ mediaResp = [kind |-> "none"]
    /\ SaIdle /\ FsEmpty /\ ConvIdle /\ BatchIdle

NextApi ==
    \/ \E r \in Requests : TranscribeOpen(r)
    \/ \E r \in Requests : TranscribeReturns(r)
    \/ \E r \in Requests : TranscribeRaises(r)
    \/ \E file_name \in MediaQueries : return_media(file_name)

SpecApi == InitApi /\ [][NextApi]_vars

\* ------------------------------------------------------------------ C5
\* C5: every file the POST /transcribe/ handler writes for a request is
\* deleted before the handler returns or raises: once a request is over, the
\* file it wrote is not in the upload directory.
C5_UploadDeleted ==
    \A r \in Requests :
        rpc[r] \in {"returned", "raised"} =>
            (reqFile[r] \notin DOMAIN uploadDir
                \/ \E q \in Requests : q # r /\ rpc[q] = "awaiting"
                                       /\ reqFile[q] = reqFile[r])

\* ------------------------------------------------------------------ C6
\* C6: whatever the interleaving of concurrent requests at the await, the
\* bytes a request loads for transcription are exactly the bytes it uploaded.
C6_LoadsOwnUpload ==
    \A r \in Requests : rpc[r] = "returned" => loaded[r] = reqData[r]

\* ------------------------------------------------------------------ C7
\* C7: GET /media/{file_name} answers with the first file of the upload
\* directory's listing whose name starts with file_name, and with the error
\* body exactly when no stored name starts with file_name; it never answers
\* with a file whose name does not start with file_name.
C7_FirstPrefixMatch ==
    mediaResp.kind # "none" =>
        LET l == mediaResp.listing
            q == mediaResp.file_name
            prefixed(f) == Len(f) >= Len(q) /\ \A k \in 1..Len(q) : f[k] = q[k]
            hits == {k \in 1..Len(l) : prefixed(l[k])}
        IN /\ {l[k] : k \in 1..Len(l)} = mediaResp.stored
           /\ (mediaResp.kind = "error") = (\A f \in mediaResp.stored : ~prefixed(f))
           /\ mediaResp.kind = "FileResponse" =>
                /\ prefixed(mediaResp.filename)
                /\ \E k \in hits : /\ l[k] = mediaResp.filename
                                   /\ \A j \in hits : k <= j

\* both stored names start with "a"; the one the listing gives first is the
\* answer, though the other is the exact name asked for
C7_Witness ==
    /\ mediaResp.kind = "FileResponse"
    /\ mediaResp.file_name = <<"a">>
    /\ mediaResp.listing = << <<"a", "b">>, <<"a">> >>
    /\ mediaResp.filename = <<"a", "b">>

====
